---- MODULE Spec2Model ----
(***************************************************************************)
(* The /quarterly-risk endpoint: app/main.py (quarterly_risk),             *)
(* app/schema.py (QuarterlyRiskInput), app/risk_logic.py                   *)
(* (assess_quarterly_risk); and the session state of the Streamlit         *)
(* dashboard, app.py.                                                      *)
(*                                                                         *)
(* Floats are modelled as tagged values: a finite number in fixed point,   *)
(* NaN, or +Infinity.  Percentage changes and volatilities are counted in  *)
(* units of 1/PctUnit, risk scores in units of 1/ScoreUnit.  Input amounts *)
(* are plain integers (pct_change is invariant under a common scale, so    *)
(* 50, 55 stands for 5.0, 5.5).                                            *)
(***************************************************************************)
EXTENDS Integers, Sequences, FiniteSets

\* ------------------------------------------------------------------ bounds
MaxLen == 4
NumWorkers == 2
MaxEntries == 3
MaxClock == 4

\* ------------------------------------------------------------------ state
VARIABLES
    lib,        \* the installed library build (never changes)
    pc,         \* pc[w]: where worker w is in serving its request
    input,      \* input[w]: the request body worker w is serving
    frame,      \* frame[w]: the locals of assess_quarterly_risk in worker w
    result,     \* result[w]: what assess_quarterly_risk returned or raised
    page,               \* the module selected in the dashboard's sidebar
    analysis_results,   \* st.session_state.analysis_results
    uploaded_documents, \* st.session_state.uploaded_documents
    now,                \* the dashboard's clock, datetime.now()
    chart               \* the trend chart the dashboard currently shows

service == <<lib, pc, input, frame, result>>
session == <<page, analysis_results, uploaded_documents, now, chart>>
vars == <<lib, pc, input, frame, result,
          page, analysis_results, uploaded_documents, now, chart>>

\* ------------------------------------------------------------ fixed point
PctUnit == 10 * 1000
ScoreUnit == 10 * PctUnit

\* ------------------------------------------------------------------ floats
Fin(n) == [k |-> "fin", v |-> n]
NaN == [k |-> "nan", v |-> 0]
Inf == [k |-> "inf", v |-> 0]
Null == [k |-> "null", v |-> 0]
Absent == [k |-> "absent", v |-> 0]

IsFin(x) == x.k = "fin"
IsNaN(x) == x.k = "nan"
IsFloat(x) == x.k \in {"fin", "nan", "inf"}

Abs(n) == IF n < 0 THEN -n ELSE n

\* a / b rounded to the nearest integer (b > 0), ties away from zero
DivRound(a, b) == IF a >= 0 THEN (2 * a + b) \div (2 * b)
                  ELSE -((2 * (-a) + b) \div (2 * b))

RECURSIVE SqrtSearch(_, _, _)
SqrtSearch(n, lo, hi) ==
    IF lo >= hi THEN lo
    ELSE LET mid == (lo + hi + 1) \div 2
         IN  IF mid * mid <= n THEN SqrtSearch(n, mid, hi)
             ELSE SqrtSearch(n, lo, mid - 1)

\* floor of the square root of n >= 0 (46340 is the largest root of a 32-bit int)
Sqrt(n) == SqrtSearch(n, 0, 46340)

RECURSIVE SumSeq(_)
SumSeq(s) == IF s = <<>> THEN 0 ELSE Head(s) + SumSeq(Tail(s))

\* ---------------------------------------------------------------- pandas
\* One step of Series.pct_change: cur / prev - 1 in float arithmetic.
PctStep(prev, cur) ==
    CASE IsNaN(prev) \/ IsNaN(cur) -> NaN
      [] prev.k = "inf" /\ cur.k = "inf" -> NaN
      [] prev.k = "inf" -> Fin(-PctUnit)
      [] cur.k = "inf" -> Inf
      [] prev.v = 0 /\ cur.v = 0 -> NaN
      [] prev.v = 0 -> Inf
      [] prev.v > 0 -> Fin(DivRound((cur.v - prev.v) * PctUnit, prev.v))
      [] OTHER -> Fin(DivRound((prev.v - cur.v) * PctUnit, -prev.v))

\* pct_change's fill_method='pad': a NaN takes the last value before it.
RECURSIVE Pad(_, _)
Pad(s, last) ==
    IF s = <<>> THEN <<>>
    ELSE LET x == IF IsNaN(Head(s)) THEN last ELSE Head(s)
         IN  <<x>> \o Pad(Tail(s), x)

\* Series.pct_change(): the first entry is NaN, entry i is the change from i-1.
\* The call names no fill_method: pandas before 3.0 pads NaN first, 3.0 does not.
PctChange(s) ==
    LET p == IF lib.padsNaN THEN Pad(s, NaN) ELSE s
    IN  [i \in 1..Len(s) |-> IF i = 1 THEN NaN ELSE PctStep(p[i - 1], p[i])]

\* Delta degrees of freedom of Series.std (sample standard deviation).
Ddof == 1

\* Mutant: the population standard deviation (ddof = 0).
StdPopulation(s) ==
    LET obs == SelectSeq(s, LAMBDA x : ~IsNaN(x))
        n == Len(obs)
    IN  IF n <= 0 THEN NaN
        ELSE IF \E i \in 1..n : obs[i].k = "inf" THEN NaN
        ELSE LET vals == [i \in 1..n |-> obs[i].v]
                 mean == DivRound(SumSeq(vals), n)
                 sq == [i \in 1..n |-> (vals[i] - mean) * (vals[i] - mean)]
             IN  Fin(Sqrt(SumSeq(sq) \div n))

\* Series.std(): NaN entries are skipped; fewer than ddof + 1 values, or an
\* infinite value (inf - inf), give NaN.
Std(s) ==
    LET obs == SelectSeq(s, LAMBDA x : ~IsNaN(x))
        n == Len(obs)
    IN  IF n - Ddof <= 0 THEN NaN
        ELSE IF \E i \in 1..n : obs[i].k = "inf" THEN NaN
        ELSE LET vals == [i \in 1..n |-> obs[i].v]
                 mean == DivRound(SumSeq(vals), n)
                 sq == [i \in 1..n |-> (vals[i] - mean) * (vals[i] - mean)]
             IN  Fin(Sqrt(SumSeq(sq) \div (n - Ddof)))

\* df[col].pct_change().std()
Volatility(s) == Std(PctChange(s))

\* ------------------------------------------------------------ risk score
PenaltyWeight == 6
LateWeight == 4
Decimals == 3

\* Mutant: the two weights exchanged.
RiskScoreSwapped(vp, vl) ==
    IF IsFin(vp) /\ IsFin(vl) THEN Fin(LateWeight * vp.v + PenaltyWeight * vl.v)
    ELSE NaN

\* risk_score = (volatility_penalty * 0.6) + (volatility_late * 0.4), in 1/ScoreUnit
RiskScore(vp, vl) ==
    IF IsFin(vp) /\ IsFin(vl) THEN Fin(PenaltyWeight * vp.v + LateWeight * vl.v)
    ELSE NaN

RECURSIVE Pow10(_)
Pow10(n) == IF n = 0 THEN 1 ELSE 10 * Pow10(n - 1)

\* round(risk_score, 3): to the nearest multiple of 10^-3, ties to even;
\* the result stays in 1/ScoreUnit.
Round3(score) ==
    IF ~IsFin(score) THEN score
    ELSE LET step == ScoreUnit \div Pow10(Decimals)
             q == score.v \div step
             r == score.v % step
             up == 2 * r > step \/ (2 * r = step /\ q % 2 = 1)
         IN  Fin(step * (IF up THEN q + 1 ELSE q))

\* The threshold 0.25 in 1/ScoreUnit.
Threshold == ScoreUnit \div 4

\* Mutant: the flag taken from the rounded score.
RiskFlagOfRounded(score) == IsFin(score) /\ Round3(score).v > Threshold

\* risk_flag = risk_score > 0.25 (a comparison with NaN is False)
RiskFlag(score) == IsFin(score) /\ score.v > Threshold

\* --------------------------------------------------------------- requests
\* A quarter label "<year>-Q<q>".
QuarterLabel(i) == [year |-> 2023 + (i - 1) \div 4, q |-> ((i - 1) % 4) + 1]
BadLabel == [year |-> 2023, q |-> 5]

\* QuarterlyRiskInput: the three lists of the request body.
Req(qs, pen, late) ==
    [quarters |-> qs, penalty_per_year |-> pen, percent_returns_late |-> late]

Quarters(n) == [i \in 1..n |-> QuarterLabel(i)]
Floats(s) == [i \in 1..Len(s) |-> Fin(s[i])]

PenaltyAmounts == {0, 1000, 1590}
LatePcts == {5, 6}

DropLast(s) == IF s = <<>> THEN s ELSE SubSeq(s, 1, Len(s) - 1)
SetLast(s, x) == IF s = <<>> THEN s ELSE [s EXCEPT ![Len(s)] = x]

\* A request with aligned lists of finite numbers and parseable labels.
WellFormed(p, l) == Req(Quarters(Len(p)), Floats(p), Floats(l))

\* What may be wrong with a request: nothing, or one defect.
Defects ==
    {"none", "penalty_short", "late_long", "bad_label",
     "nan_penalty", "inf_late", "null_penalty"}

Defective(b, d) ==
    CASE d = "penalty_short" -> [b EXCEPT !.penalty_per_year = DropLast(@)]
      [] d = "late_long" -> [b EXCEPT !.percent_returns_late = Append(@, Fin(5))]
      [] d = "bad_label" -> [b EXCEPT !.quarters = SetLast(@, BadLabel)]
      [] d = "nan_penalty" -> [b EXCEPT !.penalty_per_year = SetLast(@, NaN)]
      [] d = "inf_late" -> [b EXCEPT !.percent_returns_late = SetLast(@, Inf)]
      [] d = "null_penalty" -> [b EXCEPT !.penalty_per_year = SetLast(@, Null)]
      [] OTHER -> b

\* Sample requests: the examples of the endpoint's description and their variants.
Samples ==
    {Req(Quarters(5), Floats(<<1000, 1100, 1050, 1300, 1250>>), Floats(<<50, 55, 52, 60, 58>>)),
     Req(Quarters(2), Floats(<<100, 110>>), Floats(<<20, 21>>)),
     Req(Quarters(4), Floats(<<1000, 1200, 900>>), Floats(<<50, 62, 48, 71>>)),
     Req(Quarters(3), Floats(<<1000, 1000, 1000>>), Floats(<<5, 5, 5>>)),
     Req(Quarters(3), Floats(<<1000, 1000, 1001>>), Floats(<<5, 5, 5>>)),
     Req(Quarters(3), Floats(<<1000, 1000, 1000>>), Floats(<<1000, 1000, 1001>>)),
     Req(Quarters(3), SetLast(Floats(<<1000, 1590, 1590>>), NaN), Floats(<<5, 5, 5>>))}

\* ------------------------------------------------------------- libraries
\* pydantic, List[float]: every item of both numeric lists is a float
\* (NaN and Infinity are floats; null is not).
SchemaValid(inp) ==
    /\ \A i \in 1..Len(inp.penalty_per_year) : IsFloat(inp.penalty_per_year[i])
    /\ \A i \in 1..Len(inp.percent_returns_late) : IsFloat(inp.percent_returns_late[i])

\* pd.PeriodIndex(..., freq='Q'): a label parses iff its quarter is 1..4.
Parseable(label) == label.q \in 1..4

\* Period.to_timestamp(): the first month of the quarter.
ToTimestamp(label) == [year |-> label.year, month |-> 3 * (label.q - 1) + 1]

\* What the installed pandas and statsmodels do where the code does not fix
\* it: the fewest observations ARIMA(1,1,1).fit() accepts, whether it raises
\* on a series holding NaN or Infinity, and whether pct_change pads NaN.
\* Fixed for the life of the process.
LibBuilds == [minObs : {1, 3}, rejectsNonFinite : BOOLEAN, padsNaN : BOOLEAN]

\* ARIMA(series, order=(1,1,1)).fit() raises.
FitRaises(series, build) ==
    \/ Len(series) < build.minObs
    \/ build.rejectsNonFinite /\ \E i \in 1..Len(series) : ~IsFin(series[i])

ForecastSteps == 2

\* model.forecast(steps=2).tolist(): the values are functions of the fitted
\* series alone; they are kept symbolic.
Forecast(series) ==
    [k |-> "list", v |-> [h \in 1..ForecastSteps |-> [of |-> series, step |-> h]]]

\* ---------------------------------------------------------------- workers
Workers == 1..NumWorkers

Bool(b) == [k |-> "bool", v |-> b]

EmptyFrame ==
    [df |-> Absent, penalty_forecast |-> Absent, late_forecast |-> Absent,
     volatility_penalty |-> Absent, volatility_late |-> Absent,
     risk_score |-> Absent, risk_flag |-> Absent]

\* The DataFrame of lines 6-10, indexed by the quarters' timestamps.
Frame(inp) ==
    [k |-> "df",
     v |-> [index |-> [i \in 1..Len(inp.quarters) |-> ToTimestamp(inp.quarters[i])],
            penalty |-> inp.penalty_per_year,
            late_pct |-> inp.percent_returns_late]]

\* Mutants: df is a module-level name, so a worker reads whichever DataFrame
\* is bound to it.
PenaltyColumnShared(w) ==
    frame[CHOOSE x \in Workers : frame[x].df.k = "df"].df.v.penalty
LateColumnShared(w) ==
    frame[CHOOSE x \in Workers : frame[x].df.k = "df"].df.v.late_pct

\* df['penalty'], df['late_pct'] as worker w reads them.
PenaltyColumn(w) == frame[w].df.v.penalty
LateColumn(w) == frame[w].df.v.late_pct

\* Mutant: the exception is swallowed and the dict is returned as far as filled.
PartialReport(e) ==
    [kind |-> "report", error |-> e,
     penalty_forecast_next_2_quarters |-> Absent,
     late_pct_forecast_next_2_quarters |-> Absent,
     risk_score |-> Absent, risk_flag |-> Absent]

\* An exception leaving the handler: no report field is set.
Error(e) ==
    [kind |-> "error", error |-> e,
     penalty_forecast_next_2_quarters |-> Absent,
     late_pct_forecast_next_2_quarters |-> Absent,
     risk_score |-> Absent, risk_flag |-> Absent]

\* The dict of lines 24-29.
Report(f) ==
    [kind |-> "report", error |-> "none",
     penalty_forecast_next_2_quarters |-> f.penalty_forecast,
     late_pct_forecast_next_2_quarters |-> f.late_forecast,
     risk_score |-> Round3(f.risk_score),
     risk_flag |-> f.risk_flag]

\* assess_quarterly_risk behind the schema, as one call served alone.
Assess(inp, build) ==
    IF ~SchemaValid(inp) THEN Error("ValidationError")
    ELSE IF \E i \in 1..Len(inp.quarters) : ~Parseable(inp.quarters[i])
    THEN Error("UnhandledParseError")
    ELSE IF \/ Len(inp.penalty_per_year) # Len(inp.quarters)
            \/ Len(inp.percent_returns_late) # Len(inp.quarters)
    THEN Error("UnhandledValueError")
    ELSE IF \/ FitRaises(inp.penalty_per_year, build)
            \/ FitRaises(inp.percent_returns_late, build)
    THEN Error("UnhandledFitError")
    ELSE LET s == RiskScore(Volatility(inp.penalty_per_year),
                            Volatility(inp.percent_returns_late))
         IN  Report([EmptyFrame EXCEPT
                        !.penalty_forecast = Forecast(inp.penalty_per_year),
                        !.late_forecast = Forecast(inp.percent_returns_late),
                        !.risk_score = s,
                        !.risk_flag = Bool(RiskFlag(s))])

\* ------------------------------------------------------------- dashboard
\* The modules of the sidebar selectbox, app.py lines 45-49.
UploadPage == "Document Upload & Analysis"
JsonPage == "JSON Management"
HistoricalPage == "Historical Analysis"
Pages == {UploadPage, "Risk Dashboard", "Detailed Reports", JsonPage,
          HistoricalPage}

\* An analysis result is a dict; of its keys only 'overall_risk_score' is
\* read by the historical page.  A dict loaded from JSON may lack the key.
RiskScores == {20, 70}
Results == {[overall_risk_score |-> Fin(s)] : s \in RiskScores}
Falsy == [overall_risk_score |-> Null]
Loaded == Results \cup {[overall_risk_score |-> Absent]}
FileNames == {"a.pdf", "b.pdf"}

\* result.get('overall_risk_score', 0)
GetScore(r) ==
    IF r.overall_risk_score = Absent THEN Fin(0) ELSE r.overall_risk_score

\* What historical_page draws: nothing but a note below 2 analyses, else a
\* trace with the documents' timestamps as x and the results' scores as y.
NoChart == [k |-> "none", x |-> <<>>, y |-> <<>>]
HistoricalChart ==
    IF Len(analysis_results) < 2
    THEN [k |-> "info", x |-> <<>>, y |-> <<>>]
    ELSE [k |-> "scatter",
          x |-> [i \in 1..Len(uploaded_documents) |->
                    uploaded_documents[i].timestamp],
          y |-> [i \in 1..Len(analysis_results) |->
                    GetScore(analysis_results[i])]]


Init ==
    /\ lib \in LibBuilds
    /\ pc = [w \in Workers |-> "idle"]
    /\ input = [w \in Workers |-> Absent]
    /\ frame = [w \in Workers |-> EmptyFrame]
    /\ result = [w \in Workers |-> Absent]
    /\ page = UploadPage
    /\ analysis_results = <<>>
    /\ uploaded_documents = <<>>
    /\ now = 0
    /\ chart = NoChart

\* Worker w takes up the request body inp.
Accept(w, inp) ==
    /\ input' = [input EXCEPT ![w] = inp]
    /\ pc' = [pc EXCEPT ![w] = "received"]
    /\ UNCHANGED <<lib, frame, result>>
    /\ UNCHANGED session

\* The host hands worker w a request: N quarters, amounts of the bounded
\* family, at most one defect.
Receive(w) ==
    /\ pc[w] = "idle"
    /\ \E n \in 1..MaxLen :
           \E p \in [1..n -> PenaltyAmounts], l \in [1..n -> LatePcts], d \in Defects :
               Accept(w, Defective(WellFormed(p, l), d))

\* The host hands worker w one of the sample requests.
ReceiveSample(w) ==
    /\ pc[w] = "idle"
    /\ \E inp \in Samples : Accept(w, inp)

\* FastAPI validates the body against QuarterlyRiskInput (422 on failure).
Validate(w) ==
    /\ pc[w] = "received"
    /\ IF SchemaValid(input[w])
       THEN /\ pc' = [pc EXCEPT ![w] = "validated"]
            /\ UNCHANGED result
       ELSE /\ result' = [result EXCEPT ![w] = Error("ValidationError")]
            /\ pc' = [pc EXCEPT ![w] = "done"]
    /\ UNCHANGED <<lib, input, frame>>
    /\ UNCHANGED session

\* Lines 6-10: parse the labels, then build the DataFrame.
BuildFrame(w) ==
    /\ pc[w] = "validated"
    /\ IF \E i \in 1..Len(input[w].quarters) : ~Parseable(input[w].quarters[i])
       THEN /\ result' = [result EXCEPT ![w] = Error("UnhandledParseError")]
            /\ pc' = [pc EXCEPT ![w] = "done"]
            /\ UNCHANGED frame
       ELSE IF \/ Len(input[w].penalty_per_year) # Len(input[w].quarters)
               \/ Len(input[w].percent_returns_late) # Len(input[w].quarters)
       THEN /\ result' = [result EXCEPT ![w] = Error("UnhandledValueError")]
            /\ pc' = [pc EXCEPT ![w] = "done"]
            /\ UNCHANGED frame
       ELSE /\ frame' = [frame EXCEPT ![w].df = Frame(input[w])]
            /\ pc' = [pc EXCEPT ![w] = "framed"]
            /\ UNCHANGED result
    /\ UNCHANGED <<lib, input>>
    /\ UNCHANGED session

\* Lines 12-13: fit the penalty series and forecast 2 steps.
FitPenalty(w) ==
    /\ pc[w] = "framed"
    /\ IF FitRaises(PenaltyColumn(w), lib)
       THEN /\ result' = [result EXCEPT ![w] = Error("UnhandledFitError")]
            /\ frame' = [frame EXCEPT ![w] = EmptyFrame]
            /\ pc' = [pc EXCEPT ![w] = "done"]
       ELSE /\ frame' = [frame EXCEPT ![w].penalty_forecast = Forecast(PenaltyColumn(w))]
            /\ pc' = [pc EXCEPT ![w] = "pfit"]
            /\ UNCHANGED result
    /\ UNCHANGED <<lib, input>>
    /\ UNCHANGED session

\* Lines 15-16: fit the late_pct series and forecast 2 steps.
FitLate(w) ==
    /\ pc[w] = "pfit"
    /\ IF FitRaises(LateColumn(w), lib)
       THEN /\ result' = [result EXCEPT ![w] = Error("UnhandledFitError")]
            /\ frame' = [frame EXCEPT ![w] = EmptyFrame]
            /\ pc' = [pc EXCEPT ![w] = "done"]
       ELSE /\ frame' = [frame EXCEPT ![w].late_forecast = Forecast(LateColumn(w))]
            /\ pc' = [pc EXCEPT ![w] = "lfit"]
            /\ UNCHANGED result
    /\ UNCHANGED <<lib, input>>
    /\ UNCHANGED session

\* Lines 18-22: the two volatilities, the score and the flag.
Score(w) ==
    /\ pc[w] = "lfit"
    /\ LET vp == Volatility(PenaltyColumn(w))
           vl == Volatility(LateColumn(w))
           s == RiskScore(vp, vl)
       IN  frame' = [frame EXCEPT ![w].volatility_penalty = vp,
                                  ![w].volatility_late = vl,
                                  ![w].risk_score = s,
                                  ![w].risk_flag = Bool(RiskFlag(s))]
    /\ pc' = [pc EXCEPT ![w] = "scored"]
    /\ UNCHANGED <<lib, input, result>>
    /\ UNCHANGED session

\* Lines 24-29: return the dict; the locals die with the call.
Return(w) ==
    /\ pc[w] = "scored"
    /\ result' = [result EXCEPT ![w] = Report(frame[w])]
    /\ frame' = [frame EXCEPT ![w] = EmptyFrame]
    /\ pc' = [pc EXCEPT ![w] = "done"]
    /\ UNCHANGED <<lib, input>>
    /\ UNCHANGED session

\* main.py line 9: the response (or the error) goes to the client; the worker
\* keeps nothing of the request.
Respond(w) ==
    /\ pc[w] = "done"
    /\ input' = [input EXCEPT ![w] = Absent]
    /\ result' = [result EXCEPT ![w] = Absent]
    /\ pc' = [pc EXCEPT ![w] = "idle"]
    /\ UNCHANGED <<lib, frame>>
    /\ UNCHANGED session

Step(w) ==
    \/ Validate(w)
    \/ BuildFrame(w)
    \/ FitPenalty(w)
    \/ FitLate(w)
    \/ Score(w)
    \/ Return(w)
    \/ Respond(w)

\* One worker, every request of the bounded family.
Next == Receive(1) \/ Step(1)

Spec == Init /\ [][Next]_vars

\* All workers at once, serving the sample requests.
NextConc == \E w \in Workers : ReceiveSample(w) \/ Step(w)

SpecConc == Init /\ [][NextConc]_vars

\* ------------------------------------------------------ dashboard actions
\* main(): the user selects a module and the script renders its page; the
\* historical page draws its chart from the two session lists.
Navigate(p) ==
    /\ page' = p
    /\ chart' = IF p = HistoricalPage THEN HistoricalChart ELSE NoChart
    /\ UNCHANGED <<analysis_results, uploaded_documents, now>>
    /\ UNCHANGED service

\* 'Analyze Document' on an uploaded file: a non-empty result is appended to
\* analysis_results and a document entry, stamped with the current time and
\* holding the same result, to uploaded_documents.
AnalyzeDocument(name, results) ==
    /\ page = UploadPage
    /\ now < MaxClock
    /\ Len(analysis_results) < MaxEntries
    /\ Len(uploaded_documents) < MaxEntries
    /\ IF results # Falsy
       THEN /\ analysis_results' = Append(analysis_results, results)
            /\ uploaded_documents' =
                   Append(uploaded_documents,
                          [name |-> name, timestamp |-> now, results |-> results])
       ELSE UNCHANGED <<analysis_results, uploaded_documents>>
    /\ now' = now + 1
    /\ UNCHANGED <<page, chart>>
    /\ UNCHANGED service

\* 'Add to Current Session' on a loaded JSON that has 'analysis_results'.
AddToCurrentSession(imported_results) ==
    /\ page = JsonPage
    /\ Len(analysis_results) < MaxEntries
    /\ analysis_results' = Append(analysis_results, imported_results)
    /\ UNCHANGED <<page, uploaded_documents, now, chart>>
    /\ UNCHANGED service

\* 'Clear All Session Data'; the lists are emptied only in a run in which
\* the confirmation checkbox reads as checked.
ClearAllSessionData(confirmed) ==
    /\ page = JsonPage
    /\ IF confirmed
       THEN /\ analysis_results' = <<>>
            /\ uploaded_documents' = <<>>
       ELSE UNCHANGED <<analysis_results, uploaded_documents>>
    /\ UNCHANGED <<page, now, chart>>
    /\ UNCHANGED service

NextDash ==
    \/ \E p \in Pages : Navigate(p)
    \/ \E name \in FileNames, results \in Results \cup {Falsy} :
           AnalyzeDocument(name, results)
    \/ \E imported_results \in Loaded : AddToCurrentSession(imported_results)
    \/ \E confirmed \in BOOLEAN : ClearAllSessionData(confirmed)

SpecDash == Init /\ [][NextDash]_vars

\* ================================================================ claims
Done(w) == pc[w] = "done"
Returned(w) == Done(w) /\ result[w].kind = "report"
Raised(w, e) == Done(w) /\ result[w] = Error(e)

\* The unrounded score of a request, spelled out from its two input series.
InputVolPenalty(w) == Volatility(input[w].penalty_per_year)
InputVolLate(w) == Volatility(input[w].percent_returns_late)
ExactScoreAbove(w, t) ==
    /\ IsFin(InputVolPenalty(w)) /\ IsFin(InputVolLate(w))
    /\ 6 * InputVolPenalty(w).v + 4 * InputVolLate(w).v > t

\* ---------------------------------------------------------------------- C1
\* C1 as stated: in every returned report, risk_flag is true iff the reported
\* (rounded) risk_score is strictly greater than 0.25.
C1_FlagMatchesReportedScore ==
    \A w \in Workers : Returned(w) =>
        (result[w].risk_flag.v <=>
            (IsFin(result[w].risk_score) /\ result[w].risk_score.v > Threshold))

\* C1 amended: in every returned report, risk_flag is true iff the unrounded
\* score 0.6*vol(penalty) + 0.4*vol(late_pct) is strictly greater than 0.25;
\* so a reported score above 0.25 has the flag set, and a set flag has a
\* reported score of at least 0.25 (exactly 0.25 is possible).
C1_FlagMatchesUnroundedScore ==
    \A w \in Workers : Returned(w) =>
        /\ result[w].risk_flag.v <=> ExactScoreAbove(w, Threshold)
        /\ (IsFin(result[w].risk_score) /\ result[w].risk_score.v > Threshold)
               => result[w].risk_flag.v
        /\ result[w].risk_flag.v
               => (IsFin(result[w].risk_score) /\ result[w].risk_score.v >= Threshold)

\* A report whose reported score is exactly 0.25 and whose flag is set.
C1_Witness ==
    \E w \in Workers :
        /\ Returned(w)
        /\ result[w].risk_score = Fin(Threshold)
        /\ result[w].risk_flag.v

\* ---------------------------------------------------------------------- C2
Mismatched(inp) ==
    \/ Len(inp.penalty_per_year) # Len(inp.quarters)
    \/ Len(inp.percent_returns_late) # Len(inp.quarters)

\* C2: a request whose penalty_per_year or percent_returns_late differs in
\* length from quarters ends in ValidationError: no report, no other failure.
C2_MismatchIsValidationError ==
    \A w \in Workers : (Done(w) /\ Mismatched(input[w])) =>
        result[w] = Error("ValidationError")

\* ---------------------------------------------------------------------- C3
AllFinite(s) == \A i \in 1..Len(s) : IsFin(s[i])
AllParse(qs) == \A i \in 1..Len(qs) : Parseable(qs[i])

\* Aligned lists of finite numbers under parseable labels.
WellFormedInput(inp) ==
    /\ ~Mismatched(inp)
    /\ AllParse(inp.quarters)
    /\ AllFinite(inp.penalty_per_year)
    /\ AllFinite(inp.percent_returns_late)

\* C3: a well-formed request with 1 or 2 quarters ends in FittingError or
\* DegenerateVolatilityError, never in a report.  The code defines no error
\* types; the exception ARIMA raises is taken for the FittingError outcome.
C3_ShortSeriesIsError ==
    \A w \in Workers :
        (Done(w) /\ WellFormedInput(input[w]) /\ Len(input[w].quarters) \in {1, 2}) =>
            \/ result[w] = Error("UnhandledFitError")
            \/ result[w] = Error("DegenerateVolatilityError")

\* ---------------------------------------------------------------------- C4
FailsValidation(inp) ==
    \/ ~AllParse(inp.quarters)
    \/ \E i \in 1..Len(inp.penalty_per_year) : inp.penalty_per_year[i].k \in {"nan", "inf"}
    \/ \E i \in 1..Len(inp.percent_returns_late) : inp.percent_returns_late[i].k \in {"nan", "inf"}

\* C4: a request with an unparseable quarter label or a NaN/Infinity value is
\* rejected with ValidationError before any fitting step, and gets no report.
\* Every exception raised before the first fit is taken for that rejection.
C4_InvalidRejectedBeforeFitting ==
    \A w \in Workers : (pc[w] # "idle" /\ FailsValidation(input[w])) =>
        /\ pc[w] \in {"received", "validated", "framed", "done"}
        /\ Done(w) => \/ result[w] = Error("ValidationError")
                      \/ result[w] = Error("UnhandledParseError")
                      \/ result[w] = Error("UnhandledValueError")

\* ---------------------------------------------------------------------- C5
IsForecast(x) == x.k = "list" /\ Len(x.v) = ForecastSteps

CompleteReport(r) ==
    /\ r.kind = "report"
    /\ IsForecast(r.penalty_forecast_next_2_quarters)
    /\ IsForecast(r.late_pct_forecast_next_2_quarters)
    /\ IsFloat(r.risk_score)
    /\ r.risk_flag.k = "bool"

BareError(r) ==
    /\ r.kind = "error"
    /\ r.penalty_forecast_next_2_quarters = Absent
    /\ r.late_pct_forecast_next_2_quarters = Absent
    /\ r.risk_score = Absent
    /\ r.risk_flag = Absent

\* C5: a request ends either in a report carrying all four fields or in an
\* error carrying none of them; nothing reaches the caller before that.
C5_ReportOrErrorNeverPartial ==
    \A w \in Workers :
        IF Done(w) THEN CompleteReport(result[w]) \/ BareError(result[w])
        ELSE result[w] = Absent

\* The late_pct fit failed after the penalty forecast had been computed.
C5_Witness ==
    \E w \in Workers :
        /\ Raised(w, "UnhandledFitError")
        /\ ~FitRaises(input[w].penalty_per_year, lib)

\* ---------------------------------------------------------------------- C6
RECURSIVE CountFin(_)
CountFin(s) ==
    IF s = <<>> THEN 0 ELSE (IF IsFin(Head(s)) THEN 1 ELSE 0) + CountFin(Tail(s))

\* A valid input: well formed, and no negative penalty.
ValidInput(inp) ==
    /\ WellFormedInput(inp)
    /\ \A i \in 1..Len(inp.penalty_per_year) : inp.penalty_per_year[i].v >= 0

\* C6: for a valid input with N >= 4 whose two fits succeed and whose series
\* each have at least 2 percentage-change observations, the report holds
\* exactly 2 forecasts per series and a finite risk_score >= 0.
C6_ScoreFiniteNonNegative ==
    \A w \in Workers :
        (/\ Returned(w)
         /\ ValidInput(input[w])
         /\ Len(input[w].quarters) >= 4
         /\ CountFin(PctChange(input[w].penalty_per_year)) >= 2
         /\ CountFin(PctChange(input[w].percent_returns_late)) >= 2) =>
            /\ IsForecast(result[w].penalty_forecast_next_2_quarters)
            /\ IsForecast(result[w].late_pct_forecast_next_2_quarters)
            /\ IsFin(result[w].risk_score)
            /\ result[w].risk_score.v >= 0

\* ---------------------------------------------------------------------- C7
FinVols(vp, vl) == IsFin(vp) /\ IsFin(vl)

\* C7 as stated: of two reports with the same late_pct volatility, the one
\* with the larger penalty volatility has the strictly larger risk_score, by
\* 0.6 times the volatility difference; likewise for late_pct, by 0.4 times.
C7_ReportedScoreSensitivity ==
    \A a, b \in Workers :
        (a # b /\ Returned(a) /\ Returned(b)) =>
            LET vpa == InputVolPenalty(a)
                vla == InputVolLate(a)
                vpb == InputVolPenalty(b)
                vlb == InputVolLate(b)
                dp == vpa.v - vpb.v
                dl == vla.v - vlb.v
                dr == result[a].risk_score.v - result[b].risk_score.v
            IN  (FinVols(vpa, vla) /\ FinVols(vpb, vlb)) =>
                    /\ (dl = 0 /\ dp > 0) => (dr > 0 /\ dr = 6 * dp)
                    /\ (dp = 0 /\ dl > 0) => (dr > 0 /\ dr = 4 * dl)

\* C7 amended: with the other volatility equal, a strictly larger penalty
\* (late_pct) volatility gives a strictly larger unrounded score, by exactly
\* 0.6 (0.4) times the volatility difference; the reported score, rounded to
\* 3 decimals, is never smaller and its difference is within 0.001 of that.
C7_UnroundedScoreSensitivity ==
    \A a, b \in Workers :
        /\ (/\ a # b /\ pc[a] = "scored" /\ pc[b] = "scored"
            /\ FinVols(frame[a].volatility_penalty, frame[a].volatility_late)
            /\ FinVols(frame[b].volatility_penalty, frame[b].volatility_late)) =>
               LET dp == frame[a].volatility_penalty.v - frame[b].volatility_penalty.v
                   dl == frame[a].volatility_late.v - frame[b].volatility_late.v
                   ds == frame[a].risk_score.v - frame[b].risk_score.v
               IN  /\ (dl = 0 /\ dp > 0) => (ds > 0 /\ ds = 6 * dp)
                   /\ (dp = 0 /\ dl > 0) => (ds > 0 /\ ds = 4 * dl)
        /\ (a # b /\ Returned(a) /\ Returned(b)) =>
               LET vpa == InputVolPenalty(a)
                   vla == InputVolLate(a)
                   vpb == InputVolPenalty(b)
                   vlb == InputVolLate(b)
                   dp == vpa.v - vpb.v
                   dl == vla.v - vlb.v
                   dr == result[a].risk_score.v - result[b].risk_score.v
               IN  (FinVols(vpa, vla) /\ FinVols(vpb, vlb)) =>
                       /\ (dl = 0 /\ dp > 0) =>
                              (dr >= 0 /\ Abs(dr - 6 * dp) <= ScoreUnit \div 1000)
                       /\ (dp = 0 /\ dl > 0) =>
                              (dr >= 0 /\ Abs(dr - 4 * dl) <= ScoreUnit \div 1000)

\* Two reports, the same late_pct volatility, a strictly larger penalty
\* volatility in one, and the same reported score.
C7_Witness ==
    \E a, b \in Workers :
        /\ Returned(a) /\ Returned(b)
        /\ FinVols(InputVolPenalty(a), InputVolLate(a))
        /\ FinVols(InputVolPenalty(b), InputVolLate(b))
        /\ InputVolLate(a) = InputVolLate(b)
        /\ InputVolPenalty(a).v > InputVolPenalty(b).v
        /\ result[a].risk_score = result[b].risk_score

\* ---------------------------------------------------------------------- C8
\* C8: two invocations on the same input end in the same outcome: the same
\* forecasts, risk_score and risk_flag, or the same error.
C8_SameInputSameOutcome ==
    \A a, b \in Workers :
        (Done(a) /\ Done(b) /\ input[a] = input[b]) => result[a] = result[b]

\* Two workers hold a report for the same input.
C8_Witness ==
    \E a, b \in Workers :
        a # b /\ Returned(a) /\ Returned(b) /\ input[a] = input[b]

\* ---------------------------------------------------------------------- C9
\* C9: under every interleaving each request ends in the outcome it has when
\* served alone; a step changes the state of one request only; an idle worker
\* keeps nothing of the requests it served.
C9_SoloOutcome ==
    \A w \in Workers :
        /\ Done(w) => result[w] = Assess(input[w], lib)
        /\ pc[w] = "idle" =>
               (input[w] = Absent /\ frame[w] = EmptyFrame /\ result[w] = Absent)

C9_StepTouchesOneRequest ==
    \A w \in Workers :
        pc'[w] = pc[w] =>
            (input'[w] = input[w] /\ frame'[w] = frame[w] /\ result'[w] = result[w])

C9_RequestsIndependent == []C9_SoloOutcome /\ [][C9_StepTouchesOneRequest]_vars

\* One worker holds its report while another, on a different input, is in
\* the middle of the pipeline.
C9_Witness ==
    \E a, b \in Workers :
        /\ Returned(a)
        /\ pc[b] \in {"framed", "pfit", "lfit", "scored"}
        /\ input[a] # input[b]

\* --------------------------------------------------------------------- C10
\* The squared deviations of the observed changes from their mean, over n - 1.
SampleVariance(obs) ==
    LET n == Len(obs)
        mean == DivRound(SumSeq([i \in 1..n |-> obs[i].v]), n)
    IN  SumSeq([i \in 1..n |-> (obs[i].v - mean) * (obs[i].v - mean)]) \div (n - 1)

\* sigma is the sample standard deviation of the changes pcts (to the unit):
\* NaN with fewer than 2 observations or an infinite one, else the root of
\* the sample variance.
IsSampleStd(sigma, pcts) ==
    LET obs == SelectSeq(pcts, LAMBDA x : ~IsNaN(x))
    IN  IF Len(obs) < 2 \/ \E i \in 1..Len(obs) : obs[i].k = "inf" THEN sigma = NaN
        ELSE /\ IsFin(sigma) /\ sigma.v >= 0
             /\ sigma.v * sigma.v <= SampleVariance(obs)
             /\ SampleVariance(obs) < (sigma.v + 1) * (sigma.v + 1)

\* The one value IsSampleStd admits.
SampleStd(pcts) ==
    LET obs == SelectSeq(pcts, LAMBDA x : ~IsNaN(x))
    IN  IF Len(obs) < 2 \/ \E i \in 1..Len(obs) : obs[i].k = "inf" THEN NaN
        ELSE Fin(Sqrt(SampleVariance(obs)))

\* r is x rounded to 3 decimals: a multiple of 10^-3 nearest to x (the even
\* one of two); NaN stays NaN.
IsRounded3(r, x) ==
    IF ~IsFin(x) THEN r = x
    ELSE /\ IsFin(r) /\ r.v % 100 = 0
         /\ 2 * Abs(r.v - x.v) <= 100
         /\ (2 * Abs(r.v - x.v) = 100) => ((r.v \div 100) % 2 = 0)

C11_SessionListsAligned ==
    /\ Len(uploaded_documents) = Len(analysis_results)
    /\ \A i \in 1..Len(analysis_results) :
           uploaded_documents[i].results = analysis_results[i]
    /\ chart.k = "scatter" => Len(chart.x) = Len(chart.y)

====
